---- MODULE Spec2Model ----
(***************************************************************************)
(* A model of the winpods desktop shell.                                   *)
(*                                                                         *)
(*   - the Electron main process (apps/desktop-ui/electron/main.cjs, kept  *)
(*     in src/apps/desktop-ui/src/vite-env.d.ts lines 81-259): the backend *)
(*     process supervisor, the tray/window life cycle and the three IPC    *)
(*     handlers backend:status, backend:restart, backend:data;             *)
(*   - the renderer (src/apps/desktop-ui/src/App.tsx): batteryBar, the     *)
(*     poll effect and the rows derived from the polled document;          *)
(*   - the Rust backend (crates/desktop/src-tauri), whose source is not    *)
(*     part of the material: its Session Manager, low-battery policy and   *)
(*     State Publisher are modelled from spec.md sections 3, 4.4 and 4.5.  *)
(*                                                                         *)
(* Each subsystem has its own specification; the variables of the other    *)
(* subsystems stay at their idle values.                                   *)
(***************************************************************************)
EXTENDS Integers, Sequences, FiniteSets, TLC

VARIABLES
    \* ---- main process (main.cjs) ----
    appState,        \* "init" (before whenReady) | "ready" | "quitting" | "exited"
    backendProcess,  \* let backendProcess: NULL or the pid of the tracked ChildProcess
    procState,       \* pid -> "none" | "running" | "failed" | "exited"
    killed,          \* pids on which kill() has been called
    spawnCount,      \* number of spawn() calls so far; the last pid spawned
    isQuitting,      \* let isQuitting
    quitRequested,   \* app.quit() has been called, before-quit not yet emitted
    mainWindow,      \* let mainWindow: FALSE = null, TRUE = a BrowserWindow reference
    windowState,     \* "none" | "shown" | "hidden" | "destroyed"
    tray,            \* let tray: FALSE = null, TRUE = a Tray
    lastOp,          \* the handler that ran last
    closePrevented,  \* whether the last close request called event.preventDefault()
    reply,           \* the last value returned by backend:status / backend:restart
    restartSettled,  \* since the last restart() only 'exit' events of earlier processes ran
    \* ---- the state file and backend:data ----
    files,           \* path -> [kind: "absent" | "file" | "unreadable", content: tokens]
    dataPc,          \* backend:data: "idle" | "exists" (after existsSync) | "done"
    dataReply,       \* what backend:data returned: [kind: "null" | "doc" | "raised", id]
    dataTick,        \* flips at every step of the backend:data handler
    seenAtCheck,     \* the state file as existsSync found it
    seenAtRead,      \* the state file as readFileSync found it
    pubPc,           \* the publisher: "idle" | "writing"
    pubDoc,          \* the document being written
    published,       \* the documents published so far
    pubSeen,         \* the documents published when backend:data was called
    pubDuring,       \* the documents published while backend:data was running
    docAtCall,       \* the document on disk when backend:data was called (0: none)
    \* ---- renderer: the battery window (App.tsx) ----
    barLevel,        \* props.leftBattery.level of the current render
    barText,         \* batteryBar(level) as rendered, a sequence of characters
    prevLevel,       \* the level of the render before
    prevText,        \* the bar of the render before
    \* ---- renderer: the poll effect (App.tsx) ----
    mountCount,      \* how many times the poll effect has run (one closure each)
    mountedFlag,     \* closure -> its variable "mounted"
    polls,           \* the poll() calls issued, in issue order
    mainRunning,     \* what backend:status answers now
    mainVer,         \* what backend:data answers now (0: null, else a document)
    backendRunning,  \* useState backendRunning
    backendData,     \* useState backendData (0: null, else a document)
    shownPoll,       \* the poll whose result is displayed (0: the initial state)
    \* ---- backend: Session Manager and Snapshot (spec.md 3, 4.3, 4.4) ----
    connState,       \* ConnectionState: "Disconnected" | "Connecting" | "Connected"
    protoState,      \* "AwaitingHandshake" | "Subscribing" | "Steady"
    device,          \* whether a DeviceIdentity is held
    properties,      \* battery and ear-detection readings, has = FALSE: null
    threshold,       \* settings.lowBatteryThreshold
    lowBatteryAlerted,
    batLog,          \* min(left, right) of the battery updates since the device
                     \* connected and the threshold was last set
    alertLog,        \* lowBatteryAlerted after each of them
    emitLog,         \* whether each of them emitted the alert
    snapshot,        \* the published Snapshot
    sessOp,          \* the event handled last
    uiData           \* the renderer's backendData: has = FALSE: null

shellVars == <<appState, backendProcess, procState, killed, spawnCount, isQuitting,
               quitRequested, mainWindow, windowState, tray, lastOp, closePrevented,
               reply, restartSettled>>

dataVars == <<files, dataPc, dataReply, dataTick, seenAtCheck, seenAtRead, pubPc, pubDoc,
              published, pubSeen, pubDuring, docAtCall>>

barVars == <<barLevel, barText, prevLevel, prevText>>

pollVars == <<mountCount, mountedFlag, polls, mainRunning, mainVer, backendRunning,
              backendData, shownPoll>>

sessVars == <<connState, protoState, device, properties, threshold, lowBatteryAlerted,
              batLog, alertLog, emitLog, snapshot, sessOp, uiData>>

vars == <<shellVars, dataVars, barVars, pollVars, sessVars>>

nonShellVars == <<dataVars, barVars, pollVars, sessVars>>

nonDataVars == <<shellVars, barVars, pollVars, sessVars>>

nonBarVars == <<shellVars, dataVars, pollVars, sessVars>>

nonPollVars == <<shellVars, dataVars, barVars, sessVars>>

nonSessVars == <<shellVars, dataVars, barVars, pollVars>>

(***************************************************************************)
(* Bounds                                                                  *)
(***************************************************************************)
MaxSpawn == 4

\* The number of distinct documents the publisher writes.
MaxDocs == 3

\* Battery levels range over -LevelSlack .. 100 + LevelSlack.
LevelSlack == 20

\* The number of poll() calls issued.
MaxPolls == 3

\* The number of times the poll effect is run (a remount runs it again).
MaxMounts == 1

\* The number of documents backend:data answers with, one after the other.
MaxVer == 1

\* The number of battery updates logged per connection.
MaxUpdates == 4

Pids == 1..MaxSpawn

\* let backendProcess = null
NULL == 0

(***************************************************************************)
(* Main process: backend supervision                                       *)
(***************************************************************************)

\* spawn(command, args, ...): the child either starts, or the launch fails
\* (ENOENT, EACCES): Node then emits 'error' and never 'exit', and the
\* ChildProcess object is returned all the same.
SpawnOutcomes == {"running", "failed"}

\* function startBackend(): if (backendProcess) return; backendProcess = spawn(...)
startBackend(s, outcome) ==
    IF s.backendProcess # NULL
    THEN s
    ELSE [s EXCEPT !.backendProcess = s.spawnCount + 1,
                   !.spawnCount = s.spawnCount + 1,
                   !.procState = [s.procState EXCEPT ![s.spawnCount + 1] = outcome]]

\* function stopBackend(): if (!backendProcess) return; kill(); backendProcess = null
stopBackend(s) ==
    IF s.backendProcess = NULL
    THEN s
    ELSE [s EXCEPT !.killed = s.killed \cup {s.backendProcess},
                   !.backendProcess = NULL]

\* The supervisor's part of the state, as a record the functions above act on.
Sup == [backendProcess |-> backendProcess, procState |-> procState,
        killed |-> killed, spawnCount |-> spawnCount]

SetSup(s) ==
    /\ backendProcess' = s.backendProcess
    /\ procState' = s.procState
    /\ killed' = s.killed
    /\ spawnCount' = s.spawnCount

\* ipcMain.handle("backend:status", () => ({ running: Boolean(backendProcess) }))
statusHandler(s) == [running |-> s.backendProcess # NULL]

\* ipcMain.handle("backend:restart"): stopBackend(); startBackend(); return {running}
restartHandler(s, outcome) == startBackend(stopBackend(s), outcome)

\* backendProcess.on("exit", ...): backendProcess = null, whichever child exited
exitHandler(s, p) ==
    [s EXCEPT !.procState = [s.procState EXCEPT ![p] = "exited"],
              !.backendProcess = NULL]

\* A close handler without the isQuitting guard's preventDefault: a mutant.
closeHandlerNoPrevent(q, w) == [prevented |-> FALSE, window |-> w]

\* mainWindow.on("close"): if (isQuitting) return; preventDefault(); hide()
closeHandler(q, w) ==
    IF q
    THEN [prevented |-> FALSE, window |-> w]
    ELSE [prevented |-> TRUE, window |-> "hidden"]

(***************************************************************************)
(* Main process: the events                                                *)
(***************************************************************************)
ShellInit ==
    /\ appState = "init"
    /\ backendProcess = NULL
    /\ procState = [p \in Pids |-> "none"]
    /\ killed = {}
    /\ spawnCount = 0
    /\ isQuitting = FALSE
    /\ quitRequested = FALSE
    /\ mainWindow = FALSE
    /\ windowState = "none"
    /\ tray = FALSE
    /\ lastOp = "none"
    /\ closePrevented = FALSE
    /\ reply = [running |-> FALSE]
    /\ restartSettled = FALSE

\* The renderer exists and can send IPC messages.
RendererAlive == appState = "ready" /\ windowState \in {"shown", "hidden"}

\* app.whenReady().then: startBackend(); createTray(); createWindow()
AppReady ==
    /\ appState = "init"
    /\ \E outcome \in SpawnOutcomes : SetSup(startBackend(Sup, outcome))
    /\ tray' = TRUE
    /\ mainWindow' = TRUE
    /\ windowState' = "shown"
    /\ appState' = "ready"
    /\ lastOp' = "ready"
    /\ UNCHANGED <<isQuitting, quitRequested, closePrevented, reply, restartSettled>>
    /\ UNCHANGED nonShellVars

\* backend:status
Status ==
    /\ RendererAlive
    /\ reply' = statusHandler(Sup)
    /\ lastOp' = "status"
    /\ UNCHANGED <<appState, backendProcess, procState, killed, spawnCount, isQuitting,
                   quitRequested, mainWindow, windowState, tray, closePrevented,
                   restartSettled>>
    /\ UNCHANGED nonShellVars

\* backend:restart
Restart ==
    /\ RendererAlive
    /\ spawnCount < MaxSpawn
    /\ \E outcome \in SpawnOutcomes :
          LET s == restartHandler(Sup, outcome) IN
          /\ SetSup(s)
          /\ reply' = statusHandler(s)
    /\ lastOp' = "restart"
    /\ restartSettled' = TRUE
    /\ UNCHANGED <<appState, isQuitting, quitRequested, mainWindow, windowState, tray,
                   closePrevented>>
    /\ UNCHANGED nonShellVars

\* A spawned child terminates (by itself or after kill()) and its 'exit'
\* listener runs in the main process. After a failed launch Node's 'exit'
\* event may or may not fire.
ExitEvent(p) ==
    /\ appState \in {"ready", "quitting"}
    /\ procState[p] \in {"running", "failed"}
    /\ SetSup(exitHandler(Sup, p))
    /\ lastOp' = "exit"
    /\ restartSettled' = (restartSettled /\ p # spawnCount)
    /\ UNCHANGED <<appState, isQuitting, quitRequested, mainWindow, windowState, tray,
                   closePrevented, reply>>
    /\ UNCHANGED nonShellVars

\* A close request on the main window (the user's, or app.quit() closing windows).
CloseRequest ==
    /\ appState \in {"ready", "quitting"}
    /\ windowState \in {"shown", "hidden"}
    /\ LET r == closeHandler(isQuitting, windowState) IN
       /\ closePrevented' = r.prevented
       /\ windowState' = IF r.prevented THEN r.window ELSE "destroyed"
    /\ lastOp' = "close"
    /\ UNCHANGED <<appState, backendProcess, procState, killed, spawnCount, isQuitting,
                   quitRequested, mainWindow, tray, reply, restartSettled>>
    /\ UNCHANGED nonShellVars

\* Tray "Open WinPods", tray double-click, app "activate":
\* if (!mainWindow) createWindow(); else show(), focus()
OpenWindow ==
    /\ appState = "ready"
    /\ windowState \in {"shown", "hidden"}
    /\ mainWindow' = TRUE
    /\ windowState' = "shown"
    /\ lastOp' = "open"
    /\ UNCHANGED <<appState, backendProcess, procState, killed, spawnCount, isQuitting,
                   quitRequested, tray, closePrevented, reply, restartSettled>>
    /\ UNCHANGED nonShellVars

\* Tray "Quit": isQuitting = true; app.quit()
TrayQuit ==
    /\ appState = "ready"
    /\ isQuitting' = TRUE
    /\ quitRequested' = TRUE
    /\ lastOp' = "trayQuit"
    /\ UNCHANGED <<appState, backendProcess, procState, killed, spawnCount, mainWindow,
                   windowState, tray, closePrevented, reply, restartSettled>>
    /\ UNCHANGED nonShellVars

\* app.on("before-quit"): isQuitting = true; stopBackend()
BeforeQuit ==
    /\ appState = "ready"
    /\ isQuitting' = TRUE
    /\ SetSup(stopBackend(Sup))
    /\ quitRequested' = FALSE
    /\ appState' = "quitting"
    /\ lastOp' = "beforeQuit"
    /\ restartSettled' = FALSE
    /\ UNCHANGED <<mainWindow, windowState, tray, closePrevented, reply>>
    /\ UNCHANGED nonShellVars

\* Every window is closed: the application terminates.
AppExit ==
    /\ appState = "quitting"
    /\ windowState = "destroyed"
    /\ appState' = "exited"
    /\ lastOp' = "appExit"
    /\ UNCHANGED <<backendProcess, procState, killed, spawnCount, isQuitting,
                   quitRequested, mainWindow, windowState, tray, closePrevented, reply,
                   restartSettled>>
    /\ UNCHANGED nonShellVars

(***************************************************************************)
(* The state file and backend:data                                         *)
(***************************************************************************)

\* A temporary path next to the state file: a mutant of resolveStatePath.
resolveTempPath == "state.json.tmp"

\* function resolveStatePath(): <appData>/winpods/state.json
resolveStatePath == "state.json"

Paths == {"state.json", "state.json.tmp"}

Absent == [kind |-> "absent", content |-> <<>>]

DocIds == 1..MaxDocs

\* The serialized form of document d, as a sequence of tokens.
Serialize(d) == <<"{", ToString(d), "}">>

\* JSON.parse(raw): the parsed value, or a SyntaxError. The documents are the
\* objects; null is valid JSON too.
JSONparse(raw) ==
    IF raw = <<"null">>
    THEN [ok |-> TRUE, kind |-> "null", id |-> 0]
    ELSE IF /\ Len(raw) = 3
            /\ raw[1] = "{"
            /\ raw[3] = "}"
            /\ \E d \in DocIds : raw[2] = ToString(d)
         THEN [ok |-> TRUE, kind |-> "doc",
               id |-> CHOOSE d \in DocIds : raw[2] = ToString(d)]
         ELSE [ok |-> FALSE, kind |-> "null", id |-> 0]

\* fs.existsSync(path): never throws
existsSync(fs, path) == fs[path].kind # "absent"

\* fs.readFileSync(path, "utf-8"): the content, or an error (ENOENT, EISDIR, EACCES)
readFileSync(fs, path) ==
    IF fs[path].kind = "file"
    THEN [ok |-> TRUE, raw |-> fs[path].content]
    ELSE [ok |-> FALSE, raw |-> <<>>]

\* The try block without its catch: an error reaches the caller. A mutant.
readAndParseNoCatch(fs, path) ==
    LET r == readFileSync(fs, path) IN
    IF ~r.ok
    THEN [kind |-> "raised", id |-> 0]
    ELSE LET j == JSONparse(r.raw) IN
         IF j.ok THEN [kind |-> j.kind, id |-> j.id] ELSE [kind |-> "raised", id |-> 0]

\* try { raw = readFileSync(statePath); return JSON.parse(raw) } catch (_) { return null }
readAndParse(fs, path) ==
    LET r == readFileSync(fs, path) IN
    IF ~r.ok
    THEN [kind |-> "null", id |-> 0]
    ELSE LET j == JSONparse(r.raw) IN
         IF j.ok THEN [kind |-> j.kind, id |-> j.id] ELSE [kind |-> "null", id |-> 0]

\* The document a file holds, 0 when it holds none.
DocOf(f) ==
    IF f.kind = "file" /\ JSONparse(f.content).ok /\ JSONparse(f.content).kind = "doc"
    THEN JSONparse(f.content).id
    ELSE 0

DataIdle ==
    /\ files = [p \in Paths |-> Absent]
    /\ dataPc = "idle"
    /\ dataReply = [kind |-> "null", id |-> 0]
    /\ dataTick = FALSE
    /\ seenAtCheck = Absent
    /\ seenAtRead = Absent
    /\ pubPc = "idle"
    /\ pubDoc = 0
    /\ published = {}
    /\ pubSeen = {}
    /\ pubDuring = {}
    /\ docAtCall = 0

\* backend:data, first system call: if (!fs.existsSync(statePath)) return null
DataExists ==
    /\ RendererAlive
    /\ dataPc \in {"idle", "done"}
    /\ seenAtCheck' = files[resolveStatePath]
    /\ pubSeen' = published
    /\ pubDuring' = {}
    /\ docAtCall' = DocOf(files["state.json"])
    /\ IF existsSync(files, resolveStatePath)
       THEN /\ dataPc' = "exists"
            /\ UNCHANGED dataReply
       ELSE /\ dataPc' = "done"
            /\ dataReply' = [kind |-> "null", id |-> 0]
    /\ dataTick' = ~dataTick
    /\ UNCHANGED <<files, seenAtRead, pubPc, pubDoc, published>>
    /\ UNCHANGED nonDataVars

\* backend:data, second system call: readFileSync, then JSON.parse, in the try block
DataRead ==
    /\ dataPc = "exists"
    /\ seenAtRead' = files[resolveStatePath]
    /\ dataReply' = readAndParse(files, resolveStatePath)
    /\ dataPc' = "done"
    /\ dataTick' = ~dataTick
    /\ UNCHANGED <<files, seenAtCheck, pubPc, pubDoc, published, pubSeen, pubDuring,
                   docAtCall>>
    /\ UNCHANGED nonDataVars

\* What the state file can be: missing, a directory or a locked file, or a
\* file with any content: empty, a truncated document, a document, null, junk.
FileStates ==
    {Absent, [kind |-> "unreadable", content |-> <<>>]}
    \cup {[kind |-> "file", content |-> c] :
            c \in {<<>>, <<"null">>, <<"}">>}
                  \cup {Serialize(d) : d \in DocIds}
                  \cup {SubSeq(Serialize(d), 1, n) : d \in DocIds, n \in 1..2}}

\* Another process creates, replaces, truncates, locks or deletes the state file.
FsChange ==
    /\ appState = "ready"
    /\ \E f \in FileStates :
          /\ f # files["state.json"]
          /\ files' = [files EXCEPT !["state.json"] = f]
    /\ UNCHANGED <<dataPc, dataReply, dataTick, seenAtCheck, seenAtRead, pubPc, pubDoc,
                   published, pubSeen, pubDuring, docAtCall>>
    /\ UNCHANGED nonDataVars

(***************************************************************************)
(* The State Publisher of the backend (spec.md 4.5): build the document,   *)
(* write it to a temporary file, then rename it over the state file.       *)
(***************************************************************************)
BackendRunning == \E p \in Pids : procState[p] = "running"

\* The publisher starts a publish of document d: it creates the temporary file.
PublishBegin(d) ==
    /\ BackendRunning
    /\ pubPc = "idle"
    /\ pubDoc' = d
    /\ pubPc' = "writing"
    /\ files' = [files EXCEPT !["state.json.tmp"] = [kind |-> "file", content |-> <<>>]]
    /\ UNCHANGED <<dataPc, dataReply, dataTick, seenAtCheck, seenAtRead, published,
                   pubSeen, pubDuring, docAtCall>>
    /\ UNCHANGED nonDataVars

\* The publisher writes the next part of the serialized document to the temporary file.
PublishWrite ==
    /\ pubPc = "writing"
    /\ LET tmp == files["state.json.tmp"].content IN
       /\ Len(tmp) < Len(Serialize(pubDoc))
       /\ files' = [files EXCEPT !["state.json.tmp"].content =
                        Append(tmp, Serialize(pubDoc)[Len(tmp) + 1])]
    /\ UNCHANGED <<dataPc, dataReply, dataTick, seenAtCheck, seenAtRead, pubPc, pubDoc,
                   published, pubSeen, pubDuring, docAtCall>>
    /\ UNCHANGED nonDataVars

\* The complete temporary file replaces the state file in one step.
PublishRename ==
    /\ pubPc = "writing"
    /\ files["state.json.tmp"].content = Serialize(pubDoc)
    /\ files' = [files EXCEPT !["state.json"] = files["state.json.tmp"],
                              !["state.json.tmp"] = Absent]
    /\ published' = published \cup {pubDoc}
    /\ pubDuring' = IF dataPc = "exists" THEN pubDuring \cup {pubDoc} ELSE pubDuring
    /\ pubPc' = "idle"
    /\ UNCHANGED <<dataPc, dataReply, dataTick, seenAtCheck, seenAtRead, pubDoc, pubSeen,
                   docAtCall>>
    /\ UNCHANGED nonDataVars

\* The write fails or the backend is killed: the temporary file stays as it is.
PublishAbort ==
    /\ pubPc = "writing"
    /\ pubPc' = "idle"
    /\ UNCHANGED <<files, dataPc, dataReply, dataTick, seenAtCheck, seenAtRead, pubDoc,
                   published, pubSeen, pubDuring, docAtCall>>
    /\ UNCHANGED nonDataVars

(***************************************************************************)
(* Renderer: batteryBar                                                    *)
(***************************************************************************)
Min(a, b) == IF a < b THEN a ELSE b

Max(a, b) == IF a > b THEN a ELSE b

\* Math.floor(n / d) in place of Math.round: a mutant.
MathFloor(n, d) == n \div d

\* Math.round(n / d) for d > 0: the nearest integer, halves towards +Infinity
MathRound(n, d) == (2 * n + d) \div (2 * d)

\* String.prototype.repeat: a negative count throws a RangeError
StringRepeat(c, n) == IF n < 0 THEN <<"RangeError">> ELSE [i \in 1..n |-> c]

\* function batteryBar(level)
batteryBar(level) ==
    LET clamped == Max(0, Min(100, level))
        filled == MathRound(clamped, 10)
    IN <<"[">> \o StringRepeat("#", filled) \o StringRepeat(".", 10 - filled) \o <<"]">>

Levels == (0 - LevelSlack)..(100 + LevelSlack)

BarIdle ==
    /\ barLevel = 0
    /\ barText = <<>>
    /\ prevLevel = 0
    /\ prevText = <<>>

\* The battery window renders a row: batteryBar(props.leftBattery.level)
RenderBattery(level) ==
    /\ prevLevel' = barLevel
    /\ prevText' = barText
    /\ barLevel' = level
    /\ barText' = batteryBar(level)
    /\ UNCHANGED nonBarVars

BarNext == \E level \in Levels : RenderBattery(level)

\* The number of '#' characters of a bar.
FilledOf(text) == Cardinality({i \in 1..Len(text) : text[i] = "#"})

\* A bar of 12 characters: '[', f times '#', 10 - f times '.', ']'.
IsBar(text, f) ==
    /\ Len(text) = 12
    /\ text[1] = "["
    /\ text[12] = "]"
    /\ \A i \in 2..11 : text[i] = IF i - 1 <= f THEN "#" ELSE "."

\* C7: batteryBar(level) is '[', f '#', 10 - f '.', ']' with
\* f = round(min(100, max(0, level)) / 10), halves rounded up: 12 characters,
\* empty for level <= 0, full for level >= 100, f non-decreasing in level.
C7_BatteryBar ==
    barText # <<>> =>
        LET f == FilledOf(barText)
            c == IF barLevel < 0 THEN 0 ELSE IF barLevel > 100 THEN 100 ELSE barLevel
        IN /\ f \in 0..10
           /\ IsBar(barText, f)
           /\ 10 * f - 5 <= c
           /\ c < 10 * f + 5
           /\ (barLevel <= 0 => f = 0)
           /\ (barLevel >= 100 => f = 10)
           /\ (prevText # <<>> /\ prevLevel <= barLevel) => FilledOf(prevText) <= f

\* Level 25 rendered with three cells filled (2.5 rounds up), after a render
\* of a level below 0.
C7_Witness ==
    /\ barLevel = 25
    /\ barText = <<"[", "#", "#", "#", ".", ".", ".", ".", ".", ".", ".", "]">>
    /\ prevLevel < 0
    /\ FilledOf(prevText) = 0

(***************************************************************************)
(* Renderer: the poll effect                                               *)
(***************************************************************************)
PollIdle ==
    /\ mountCount = 0
    /\ mountedFlag = [e \in 1..MaxMounts |-> FALSE]
    /\ polls = <<>>
    /\ mainRunning = FALSE
    /\ mainVer = 0
    /\ backendRunning = FALSE
    /\ backendData = 0
    /\ shownPoll = 0

\* The component is mounted: the closure of the last effect run has mounted = true.
Mounted == mountCount > 0 /\ mountedFlag[mountCount]

\* poll() up to its await: both IPC calls are sent.
NewPoll(e) == [epoch |-> e, sGot |-> FALSE, sVal |-> FALSE, dGot |-> FALSE, dVal |-> 0,
               done |-> FALSE, applied |-> FALSE]

\* poll() after its await, without the "if (!mounted) return": a mutant.
pollResumeNoGuard(ui, poll, m) ==
    [running |-> poll.sVal, data |-> poll.dVal, applied |-> TRUE]

\* poll() after its await: if (!mounted) return; setBackendRunning(..); setBackendData(..)
pollResume(ui, poll, m) ==
    IF ~m
    THEN [running |-> ui.running, data |-> ui.data, applied |-> FALSE]
    ELSE [running |-> poll.sVal, data |-> poll.dVal, applied |-> TRUE]

\* The effect runs: let mounted = true; poll(); setInterval(poll, 1500)
Mount ==
    /\ mountCount < MaxMounts
    /\ ~Mounted
    /\ Len(polls) < MaxPolls
    /\ mountCount' = mountCount + 1
    /\ mountedFlag' = [mountedFlag EXCEPT ![mountCount + 1] = TRUE]
    /\ polls' = Append(polls, NewPoll(mountCount + 1))
    /\ UNCHANGED <<mainRunning, mainVer, backendRunning, backendData, shownPoll>>
    /\ UNCHANGED nonPollVars

\* The interval fires: poll() is called whether or not earlier polls have completed.
Tick ==
    /\ Mounted
    /\ Len(polls) < MaxPolls
    /\ polls' = Append(polls, NewPoll(mountCount))
    /\ UNCHANGED <<mountCount, mountedFlag, mainRunning, mainVer, backendRunning,
                   backendData, shownPoll>>
    /\ UNCHANGED nonPollVars

\* The promise of window.backend.status() of poll i resolves.
StatusResolved(i) ==
    /\ ~polls[i].sGot
    /\ polls' = [polls EXCEPT ![i].sGot = TRUE, ![i].sVal = mainRunning]
    /\ UNCHANGED <<mountCount, mountedFlag, mainRunning, mainVer, backendRunning,
                   backendData, shownPoll>>
    /\ UNCHANGED nonPollVars

\* The promise of window.backend.data() of poll i resolves.
DataResolved(i) ==
    /\ ~polls[i].dGot
    /\ polls' = [polls EXCEPT ![i].dGot = TRUE, ![i].dVal = mainVer]
    /\ UNCHANGED <<mountCount, mountedFlag, mainRunning, mainVer, backendRunning,
                   backendData, shownPoll>>
    /\ UNCHANGED nonPollVars

\* Promise.all of poll i is fulfilled and poll() resumes.
PollResume(i) ==
    /\ polls[i].sGot
    /\ polls[i].dGot
    /\ ~polls[i].done
    /\ LET r == pollResume([running |-> backendRunning, data |-> backendData],
                           polls[i], mountedFlag[polls[i].epoch]) IN
       /\ backendRunning' = r.running
       /\ backendData' = r.data
       /\ shownPoll' = IF r.applied THEN i ELSE shownPoll
       \* poll() returns: res and data go out of scope
       /\ polls' = [polls EXCEPT ![i].done = TRUE, ![i].applied = r.applied,
                                 ![i].sVal = FALSE, ![i].dVal = 0]
    /\ UNCHANGED <<mountCount, mountedFlag, mainRunning, mainVer>>
    /\ UNCHANGED nonPollVars

\* The effect's cleanup: mounted = false; clearInterval(id)
Unmount ==
    /\ Mounted
    /\ mountedFlag' = [mountedFlag EXCEPT ![mountCount] = FALSE]
    /\ UNCHANGED <<mountCount, polls, mainRunning, mainVer, backendRunning, backendData,
                   shownPoll>>
    /\ UNCHANGED nonPollVars

\* The backend starts or stops: backend:status answers differently.
MainStatusChange ==
    /\ mainRunning' = ~mainRunning
    /\ UNCHANGED <<mountCount, mountedFlag, polls, mainVer, backendRunning, backendData,
                   shownPoll>>
    /\ UNCHANGED nonPollVars

\* The backend publishes a new document: backend:data answers differently.
MainDataChange ==
    /\ mainVer < MaxVer
    /\ mainVer' = mainVer + 1
    /\ UNCHANGED <<mountCount, mountedFlag, polls, mainRunning, backendRunning,
                   backendData, shownPoll>>
    /\ UNCHANGED nonPollVars

PollNext ==
    \/ Mount
    \/ Tick
    \/ \E i \in 1..Len(polls) : StatusResolved(i)
    \/ \E i \in 1..Len(polls) : DataResolved(i)
    \/ \E i \in 1..Len(polls) : PollResume(i)
    \/ Unmount
    \/ MainStatusChange
    \/ MainDataChange

\* The renderer's view: what is displayed, and from which poll.
View == <<backendRunning, backendData, shownPoll>>

\* In this step poll i resumed and its pair of results became the view.
AppliedFrom(i) ==
    /\ ~polls[i].done
    /\ polls'[i].done
    /\ shownPoll' = i
    /\ backendRunning' = polls[i].sVal
    /\ backendData' = polls[i].dVal

\* C9 as stated: the pair applied always comes from a poll issued no earlier
\* than the poll whose result is displayed, both values come from the same
\* poll, and no result is applied after unmount.
C9_NeverBackwards ==
    [][ View' # View =>
            /\ shownPoll' >= shownPoll
            /\ \E i \in 1..Len(polls) : AppliedFrom(i)
            /\ Mounted'
      ]_vars

\* C9 as amended: results are applied in completion order. The pair displayed
\* is that of the poll that resumed last while its effect was mounted, issued
\* earlier or later than the one displayed before; both values come from that
\* one poll; no result is applied after unmount.
C9_CompletionOrder ==
    [][ /\ View' # View =>
              /\ \E i \in 1..Len(polls) : AppliedFrom(i)
              /\ Mounted'
        /\ \A i \in 1..Len(polls) :
              (~polls[i].done /\ polls'[i].done /\ mountedFlag[polls[i].epoch]) =>
                  AppliedFrom(i)
      ]_vars

\* Poll 2 was applied, then the slower poll 1 resumed and its older document
\* is displayed; poll 3 resumed after unmount and left the display alone.
C9_Witness ==
    /\ Len(polls) >= 3
    /\ polls[2].applied
    /\ polls[1].applied
    /\ shownPoll = 1
    /\ backendData < mainVer
    /\ polls[3].done
    /\ ~polls[3].applied
    /\ ~Mounted

(***************************************************************************)
(* Backend: Session Manager, Protocol State Machine, Snapshot              *)
(* (crates/desktop/src-tauri is not part of the sources: from spec.md)     *)
(***************************************************************************)

\* The hysteresis margin of the low-battery policy: "small", and such that
\* with threshold 20 a recovery to 22 clears the alert (spec.md 4.4, 8).
Hysteresis == 1

\* settings.lowBatteryThreshold: the values the user chooses between.
Thresholds == {20, 25}

\* properties: null
NullProps == [has |-> FALSE, batKnown |-> FALSE, left |-> 0, right |-> 0, ear |-> "unknown"]

\* A low-battery policy that alerts whenever the level is low: a mutant.
lowBatteryPolicyRefire(alerted, m, thr) ==
    IF m < thr
    THEN [alerted |-> TRUE, emit |-> TRUE]
    ELSE [alerted |-> alerted /\ ~(m > thr + Hysteresis), emit |-> FALSE]

\* Low-battery policy (spec.md 4.4), after a battery update with m = min(left, right)
lowBatteryPolicy(alerted, m, thr) ==
    IF m < thr /\ ~alerted
    THEN [alerted |-> TRUE, emit |-> TRUE]
    ELSE IF alerted /\ m > thr + Hysteresis
         THEN [alerted |-> FALSE, emit |-> FALSE]
         ELSE [alerted |-> alerted, emit |-> FALSE]

\* The Snapshot document of the current state (spec.md 3, 6)
MkSnapshot(conn, dev, props, thr, alerted) ==
    [device |-> IF ~dev THEN "null"
                ELSE IF conn = "Connected" THEN "connected" ELSE "disconnected",
     properties |-> props,
     threshold |-> thr,
     lowBatteryAlerted |-> alerted]

\* The publisher writes the Snapshot of the state after the event.
Publish ==
    snapshot' = MkSnapshot(connState', device', properties', threshold', lowBatteryAlerted')

SessIdle ==
    /\ connState = "Disconnected"
    /\ protoState = "AwaitingHandshake"
    /\ device = FALSE
    /\ properties = NullProps
    /\ threshold = 20
    /\ lowBatteryAlerted = FALSE
    /\ batLog = <<>>
    /\ alertLog = <<>>
    /\ emitLog = <<>>
    /\ snapshot = MkSnapshot("Disconnected", FALSE, NullProps, 20, FALSE)
    /\ sessOp = "none"
    /\ uiData = [has |-> FALSE, snap |-> MkSnapshot("Disconnected", FALSE, NullProps, 20, FALSE)]

\* Session Manager: connect(address) is started.
SessConnect ==
    /\ connState = "Disconnected"
    /\ connState' = "Connecting"
    /\ sessOp' = "connect"
    /\ UNCHANGED <<protoState, device, properties, threshold, lowBatteryAlerted, batLog,
                   alertLog, emitLog, uiData>>
    /\ Publish
    /\ UNCHANGED nonSessVars

\* connect succeeds: Connected; lowBatteryAlerted is reset on reconnection.
SessConnectOk ==
    /\ connState = "Connecting"
    /\ connState' = "Connected"
    /\ protoState' = "AwaitingHandshake"
    /\ lowBatteryAlerted' = FALSE
    /\ batLog' = <<>>
    /\ alertLog' = <<>>
    /\ emitLog' = <<>>
    /\ sessOp' = "connectOk"
    /\ UNCHANGED <<device, properties, threshold, uiData>>
    /\ Publish
    /\ UNCHANGED nonSessVars

\* AwaitingHandshake -> Subscribing on DeviceInfoReport: DeviceIdentity is populated.
DeviceInfoReport ==
    /\ connState = "Connected"
    /\ protoState = "AwaitingHandshake"
    /\ device' = TRUE
    /\ protoState' = "Subscribing"
    /\ sessOp' = "deviceInfo"
    /\ UNCHANGED <<connState, properties, threshold, lowBatteryAlerted, batLog, alertLog,
                   emitLog, uiData>>
    /\ Publish
    /\ UNCHANGED nonSessVars

\* Subscribing -> Steady on the subscription Ack, or after the bounded timeout.
SubscribeAck ==
    /\ connState = "Connected"
    /\ protoState = "Subscribing"
    /\ protoState' = "Steady"
    /\ sessOp' = "ack"
    /\ UNCHANGED <<connState, device, properties, threshold, lowBatteryAlerted, batLog,
                   alertLog, emitLog, uiData>>
    /\ Publish
    /\ UNCHANGED nonSessVars

\* Steady: a BatteryReport updates the battery fields, then the low-battery policy runs.
BatteryReport(l, r) ==
    /\ connState = "Connected"
    /\ protoState = "Steady"
    /\ Len(batLog) < MaxUpdates
    /\ properties' = [properties EXCEPT !.has = TRUE, !.batKnown = TRUE,
                                        !.left = l, !.right = r]
    /\ LET m == IF l < r THEN l ELSE r
           pol == lowBatteryPolicy(lowBatteryAlerted, m, threshold) IN
       /\ lowBatteryAlerted' = pol.alerted
       /\ batLog' = Append(batLog, m)
       /\ alertLog' = Append(alertLog, pol.alerted)
       /\ emitLog' = Append(emitLog, pol.emit)
    /\ sessOp' = "battery"
    /\ UNCHANGED <<connState, protoState, device, threshold, uiData>>
    /\ Publish
    /\ UNCHANGED nonSessVars

\* Steady: an EarDetectionReport updates the ear fields only.
EarDetectionReport(v) ==
    /\ connState = "Connected"
    /\ protoState = "Steady"
    /\ properties' = [properties EXCEPT !.has = TRUE, !.ear = v]
    /\ sessOp' = "ear"
    /\ UNCHANGED <<connState, protoState, device, threshold, lowBatteryAlerted, batLog,
                   alertLog, emitLog, uiData>>
    /\ Publish
    /\ UNCHANGED nonSessVars

\* On Transport failure or disconnect: properties are cleared.
disconnectProps(props) == NullProps

\* Transport failure or explicit disconnect: Disconnected, properties and
\* DeviceIdentity cleared, lowBatteryAlerted cleared, Settings untouched.
SessDisconnect ==
    /\ connState \in {"Connecting", "Connected"}
    /\ connState' = "Disconnected"
    /\ protoState' = "AwaitingHandshake"
    /\ device' = FALSE
    /\ properties' = disconnectProps(properties)
    /\ lowBatteryAlerted' = FALSE
    /\ sessOp' = "disconnect"
    /\ UNCHANGED <<threshold, batLog, alertLog, emitLog, uiData>>
    /\ Publish
    /\ UNCHANGED nonSessVars

\* The user changes settings.lowBatteryThreshold.
ChangeThreshold(thr) ==
    /\ thr # threshold
    /\ threshold' = thr
    /\ batLog' = <<>>
    /\ alertLog' = <<>>
    /\ emitLog' = <<>>
    /\ sessOp' = "settings"
    /\ UNCHANGED <<connState, protoState, device, properties, lowBatteryAlerted, uiData>>
    /\ Publish
    /\ UNCHANGED nonSessVars

(***************************************************************************)
(* Renderer: the rows derived from the polled document                     *)
(***************************************************************************)

\* const deviceConnected = Boolean(backendData?.device) &&
\*                         backendData?.device?.connectionState === "connected"
deviceConnected(d) == d.has /\ d.snap.device # "null" /\ d.snap.device = "connected"

\* const props = backendData?.properties
props(d) == IF d.has THEN d.snap.properties ELSE NullProps

\* A battery window that always renders the rows: a mutant.
batteryWindowAlways(d) == "rows"

\* {props ? <rows> : <div>No battery data available.</div>}
batteryWindow(d) == IF props(d).has THEN "rows" ELSE "fallback"

\* ["Left Ear In", props ? (props.leftInEar ? "YES" : "NO") : "N/A"]
earRow(d) == IF props(d).has THEN (IF props(d).ear = "in" THEN "YES" ELSE "NO") ELSE "N/A"

\* A poll completes: setBackendData(data) with the published document.
UiPoll ==
    /\ uiData' = [has |-> TRUE, snap |-> snapshot]
    /\ sessOp' = "poll"
    /\ UNCHANGED <<connState, protoState, device, properties, threshold, lowBatteryAlerted,
                   batLog, alertLog, emitLog, snapshot>>
    /\ UNCHANGED nonSessVars

\* The battery levels of the alert scenario and of its boundaries.
AlertLevels == {15, 18, 20, 21, 22, 25}

\* The levels of the other bud: below every level above, or above all of them.
RightLevels == {18, 100}

\* The session engine under every battery report.
AlertNext ==
    \/ SessConnect
    \/ SessConnectOk
    \/ DeviceInfoReport
    \/ SubscribeAck
    \/ \E l \in AlertLevels, r \in RightLevels : BatteryReport(l, r)
    \/ SessDisconnect
    \/ \E thr \in Thresholds : ChangeThreshold(thr)

\* The session engine and the renderer polling its Snapshot.
SessionNext ==
    \/ SessConnect
    \/ SessConnectOk
    \/ DeviceInfoReport
    \/ SubscribeAck
    \/ \E l \in {18, 25} : BatteryReport(l, 100)
    \/ \E v \in {"in", "out"} : EarDetectionReport(v)
    \/ SessDisconnect
    \/ \E thr \in Thresholds : ChangeThreshold(thr)
    \/ UiPoll

ShellNext ==
    \/ AppReady
    \/ Status
    \/ Restart
    \/ \E p \in Pids : ExitEvent(p)
    \/ CloseRequest
    \/ OpenWindow
    \/ TrayQuit
    \/ BeforeQuit
    \/ AppExit

(***************************************************************************)
(* Main process: properties                                                *)
(***************************************************************************)

\* The children that are running and on which kill() was never called.
Unsupervised == {p \in Pids : procState[p] = "running" /\ p \notin killed}

\* C1: the value running returned by backend:status is true if and only if
\* the backend process most recently spawned has been started and has not
\* yet exited.
C1_StatusReportsAlive ==
    lastOp = "status" =>
        (reply.running <=> (spawnCount > 0 /\ procState[spawnCount] = "running"))

\* C2: after restart(), called once or again, with only 'exit' events of
\* earlier processes delivered since: running = true was returned, exactly
\* one backend process (the one just spawned) is tracked, and every process
\* spawned before the last restart() has been sent a kill. (A process that
\* ended by itself is let through here: the statement checked is implied by
\* the one claimed.)
C2_RestartIdempotent ==
    restartSettled =>
        /\ (lastOp = "restart" => reply.running)
        /\ backendProcess = spawnCount
        /\ \A p \in 1..(spawnCount - 1) : p \in killed \/ procState[p] # "running"

\* C8: at most one spawned backend process is alive without having been
\* sent a kill, that process is the one backendProcess references, and after
\* before-quit there is none.
C8_AtMostOneUnsupervised ==
    /\ Cardinality(Unsupervised) <= 1
    /\ Unsupervised \subseteq {backendProcess}
    /\ (appState \in {"quitting", "exited"} => Unsupervised = {})

\* C10: while isQuitting is false a close request is prevented and only
\* hides the window, leaving mainWindow, the tray and the tracked backend
\* process unchanged; isQuitting becomes true only through the tray Quit item
\* or before-quit and never returns to false; only once it is true does a
\* close request destroy the window, and only then does the shell stop the
\* backend without relaunching it.
C10_TrayResident ==
    [][ /\ (lastOp' = "close" /\ ~isQuitting) =>
              /\ closePrevented'
              /\ windowState' = "hidden"
              /\ mainWindow' = mainWindow
              /\ tray' = tray
              /\ backendProcess' = backendProcess
        /\ (isQuitting => isQuitting')
        /\ (~isQuitting /\ isQuitting') => lastOp' \in {"trayQuit", "beforeQuit"}
        /\ (windowState # "destroyed" /\ windowState' = "destroyed") =>
              (isQuitting /\ lastOp' = "close")
        /\ (backendProcess # NULL /\ backendProcess' = NULL /\ lastOp' # "exit") =>
              (isQuitting' /\ lastOp' = "beforeQuit")
      ]_vars

\* A close request was prevented while not quitting, with a backend tracked.
C10_Witness ==
    /\ lastOp = "close"
    /\ ~isQuitting
    /\ closePrevented
    /\ windowState = "hidden"
    /\ backendProcess # NULL

DataNext ==
    \/ AppReady
    \/ \E p \in Pids : ExitEvent(p)
    \/ DataExists
    \/ DataRead
    \/ FsChange

\* backend:data against a state file in any state, changed at any time.

(***************************************************************************)
(* backend:data: properties                                                *)
(***************************************************************************)
NullReply == [kind |-> "null", id |-> 0]

\* C3: backend:data returns null when the state file does not exist, the
\* parsed document when the file exists and its content parses as JSON, and
\* null, without raising an error, when reading or parsing fails; no step of
\* the handler modifies the state file or the tracked backend process.
C3_DataNeverFails ==
    [][ /\ dataPc' = "done" =>
              /\ dataReply'.kind # "raised"
              /\ seenAtCheck'.kind = "absent" => dataReply' = NullReply
              /\ (seenAtCheck'.kind # "absent" /\ seenAtRead'.kind # "file") =>
                    dataReply' = NullReply
              /\ (seenAtCheck'.kind # "absent" /\ seenAtRead'.kind = "file") =>
                    /\ \A d \in DocIds :
                          seenAtRead'.content = Serialize(d) =>
                              dataReply' = [kind |-> "doc", id |-> d]
                    /\ (\A d \in DocIds : seenAtRead'.content # Serialize(d)) =>
                          dataReply' = NullReply
        /\ dataTick' # dataTick =>
              /\ files' = files
              /\ backendProcess' = backendProcess
      ]_vars

\* backend:data found the file present and then failed to read or parse it
\* (deleted in between, unreadable, or truncated), and returned null.
C3_Witness ==
    /\ dataPc = "done"
    /\ seenAtCheck.kind # "absent"
    /\ \/ seenAtRead.kind # "file"
       \/ seenAtRead.content = <<"{", "1">>
    /\ dataReply = NullReply
    /\ backendProcess # NULL

PublishNext ==
    \/ AppReady
    \/ DataExists
    \/ DataRead
    \/ \E d \in DocIds : PublishBegin(d)
    \/ PublishWrite
    \/ PublishRename
    \/ PublishAbort

\* C4: once at least one document has been published, a backend:data read
\* that interleaves with the publisher returns a complete document that was
\* published: the one on disk when the read began or one published during
\* the read; never a half-written, missing or unparsable one.
C4_PublishAtomic ==
    (dataPc = "done" /\ pubSeen # {}) =>
        /\ dataReply.kind = "doc"
        /\ dataReply.id \in published
        /\ dataReply.id \in {docAtCall} \cup pubDuring

\* A read completed while the publisher was half-way through the next document.
C4_Witness ==
    /\ dataPc = "done"
    /\ pubSeen # {}
    /\ pubPc = "writing"
    /\ Len(files["state.json.tmp"].content) \in 1..2
    /\ dataReply.kind = "doc"
    /\ pubDuring # {}

(***************************************************************************)
(* Session Manager and Snapshot: properties                                *)
(***************************************************************************)

\* C5: in every published Snapshot properties is non-null only if device is
\* non-null and its connection state is connected; the Snapshot published on
\* a transport failure or disconnect has properties = null and
\* lowBatteryAlerted = false with the settings unchanged; so the renderer,
\* which shows the battery and in-ear rows exactly when properties is
\* non-null, shows them only for a connected device.
C5_PropertiesOnlyConnected ==
    [][ /\ snapshot'.properties.has => snapshot'.device = "connected"
        /\ sessOp' = "disconnect" =>
              /\ ~snapshot'.properties.has
              /\ ~snapshot'.lowBatteryAlerted
              /\ snapshot'.threshold = snapshot.threshold
        /\ (batteryWindow(uiData') = "rows") <=> (uiData'.has /\ uiData'.snap.properties.has)
        /\ batteryWindow(uiData') = "rows" => deviceConnected(uiData')
        /\ earRow(uiData') # "N/A" => deviceConnected(uiData')
      ]_vars

\* A disconnect was just published, with a threshold the user had changed,
\* while the renderer still shows the rows of the Snapshot it polled before.
C5_Witness ==
    /\ sessOp = "disconnect"
    /\ ~snapshot.properties.has
    /\ snapshot.device = "null"
    /\ snapshot.threshold = 25
    /\ batteryWindow(uiData) = "rows"
    /\ uiData.snap.lowBatteryAlerted

\* C6: with threshold 20, battery updates with min(left, right) = 25, 18, 15,
\* 22 give lowBatteryAlerted = false, true, true, false and emit the alert
\* once, at 18; the alert is emitted only when the flag goes from false to
\* true, and the flag is reset only by a disconnect/reconnection or by an
\* update above threshold plus the hysteresis margin.
C6_LowBatteryAlert ==
    [][ /\ (threshold' = 20 /\ batLog' = <<25, 18, 15, 22>>) =>
              /\ alertLog' = <<FALSE, TRUE, TRUE, FALSE>>
              /\ emitLog' = <<FALSE, TRUE, FALSE, FALSE>>
        /\ (sessOp' = "battery" /\ emitLog'[Len(emitLog')]) =>
              (~lowBatteryAlerted /\ lowBatteryAlerted')
        /\ (lowBatteryAlerted /\ ~lowBatteryAlerted') =>
              \/ sessOp' \in {"disconnect", "connectOk"}
              \/ /\ sessOp' = "battery"
                 /\ batLog'[Len(batLog')] > threshold + Hysteresis
      ]_vars

\* The scenario of the claim has run.
C6_Witness ==
    /\ threshold = 20
    /\ connState = "Connected"
    /\ batLog = <<25, 18, 15, 22>>
    /\ alertLog = <<FALSE, TRUE, TRUE, FALSE>>
    /\ emitLog = <<FALSE, TRUE, FALSE, FALSE>>

(***************************************************************************)
(* Specifications                                                          *)
(***************************************************************************)
InitShell == ShellInit /\ DataIdle /\ BarIdle /\ PollIdle /\ SessIdle

\* The main process: supervisor, tray and window.
SpecShell == InitShell /\ [][ShellNext]_vars

InitData == ShellInit /\ DataIdle /\ BarIdle /\ PollIdle /\ SessIdle

SpecData == InitData /\ [][DataNext]_vars

InitPublish == ShellInit /\ DataIdle /\ BarIdle /\ PollIdle /\ SessIdle

\* backend:data against a state file that only the publisher replaces.
SpecPublish == InitPublish /\ [][PublishNext]_vars

InitBar == ShellInit /\ DataIdle /\ BarIdle /\ PollIdle /\ SessIdle

\* The battery window rendering any level.
SpecBar == InitBar /\ [][BarNext]_vars

InitPoll == ShellInit /\ DataIdle /\ BarIdle /\ PollIdle /\ SessIdle

\* The poll effect with its promises resolving in any order.
SpecPoll == InitPoll /\ [][PollNext]_vars

InitAlert == ShellInit /\ DataIdle /\ BarIdle /\ PollIdle /\ SessIdle

\* The low-battery policy under every sequence of battery reports.
SpecAlert == InitAlert /\ [][AlertNext]_vars

InitSession == ShellInit /\ DataIdle /\ BarIdle /\ PollIdle /\ SessIdle

\* The published Snapshot and the rows the renderer derives from it.
SpecSession == InitSession /\ [][SessionNext]_vars

====
